---- MODULE Spec2Model ----
(***************************************************************************)
(* Event-sourced repository of packages/firestore-generator: the facade    *)
(* (repository.ts), the event log store and the state reconstruction       *)
(* (events.ts) and the event converter (utils.ts), over an abstract        *)
(* Firestore collection "<name>_events".                                   *)
(*                                                                         *)
(* Environment assumptions: the store commits an addDoc atomically and a   *)
(* query sees exactly the committed documents; the client clock does not   *)
(* go backwards and advances by at least one millisecond across a          *)
(* committed write.                                                        *)
(***************************************************************************)
EXTENDS Integers, Sequences, FiniteSets, TLC

\* ---------------------------------------------------------------- bounds
MaxVal == 2
MaxEvents == 3
MaxEntities == 2
StartClock == 1999
MaxRuns == 2

\* ------------------------------------------------------ program constants
MsPerSecond == 1000
NanosPerMs == 1000000

\* ---------------------------------------------------------------- values
Procs == {1, 2}
EntityIds == 1..MaxEntities
Fields == {"a", "b"}
TimeKeys == {"clientTimestamp", "serverTimestamp"}
Bad == 0
EmptyObj == [k \in {} |-> 0]

\* the data a caller passes to create: nothing, field a alone with an
\* ill-typed or a well-typed value, or both fields
CreateInputs ==
  {EmptyObj} \cup {[a |-> v] : v \in {Bad, 1, MaxVal}} \cup {[a |-> MaxVal, b |-> 1]}

\* the changes a caller passes to update: one field, field a possibly ill-typed
ChangeInputs ==
  {[a |-> v] : v \in {Bad, 1, MaxVal}} \cup {[b |-> MaxVal]} \cup {[a |-> 1, b |-> MaxVal]}

\* the inputs of the concurrent callers
ConcCreateInputs == {[a |-> Bad], [a |-> MaxVal, b |-> 1]}
ConcChangeInputs == {[a |-> 1], [b |-> MaxVal]}

\* an entity id that create never hands out, and all ids a caller may name
ForeignId == MaxEntities + 1
RawIds == EntityIds \cup {ForeignId}

\* what a caller of the exported event functions appends for an entity:
\* createEntity(.., data, entityId), updateEntity(.., changes, currentData),
\* deleteEntity(..) and a createEvent with an application-defined type
RawTypes == {"create", "update", "delete", "complete"}
RawData(entityId, type) ==
  CASE type = "create" -> [a |-> MaxVal, b |-> 1]
    [] type = "update" -> [a |-> MaxVal, changes |-> [a |-> 1]]
    [] type = "delete" -> [id |-> entityId]
    [] OTHER -> [completedBy |-> 1]

\* JavaScript object spread {...a, ...b}
Merge(a, b) ==
  [k \in (DOMAIN a) \cup (DOMAIN b) |-> IF k \in DOMAIN b THEN b[k] ELSE a[k]]

\* ---------------------------------------------------- timestamp conversion
dateToTimestamp(date) ==
  [seconds |-> date \div MsPerSecond,
   nanoseconds |-> (date % MsPerSecond) * NanosPerMs]

timestampToDate(timestamp) ==
  timestamp.seconds * MsPerSecond + (timestamp.nanoseconds \div NanosPerMs)

TsLess(s, t) ==
  \/ s.seconds < t.seconds
  \/ s.seconds = t.seconds /\ s.nanoseconds < t.nanoseconds

\* convertTimestamps of the converter, on a data object: every Timestamp
\* value becomes a Date, everything else is copied
convertTimestamps(obj) ==
  [k \in DOMAIN obj |->
     IF k \in TimeKeys THEN timestampToDate(obj[k]) ELSE obj[k]]

\* what the Firestore client stores for a data object: Dates as Timestamps
toStoredData(obj) ==
  [k \in DOMAIN obj |->
     IF k \in TimeKeys THEN dateToTimestamp(obj[k]) ELSE obj[k]]

\* ------------------------------------------------------------- the schemas
\* an entity schema z.object({a, b}) : field a is required or optional,
\* field b is optional; unknown keys are stripped (zod's default) or kept
Schemas == [required : {{}, {"a"}}, unknownKeys : {"strip", "passthrough"}]

\* variant: a parse that checks the types of the fields present and not the
\* presence of the required ones
schemaAccepts_typesOnly(s, data) ==
  \A f \in (DOMAIN data) \cap Fields : data[f] # Bad

\* schema.parse(data) succeeds
schemaAccepts(s, data) ==
  /\ \A f \in s.required : f \in DOMAIN data
  /\ \A f \in (DOMAIN data) \cap Fields : data[f] # Bad

\* the value schema.parse(data) returns
schemaOutput(s, data) ==
  IF s.unknownKeys = "strip"
    THEN [k \in (DOMAIN data) \cap Fields |-> data[k]]
    ELSE data

\* ------------------------------------------------------------ event reading
\* fromFirestore of createEventConverter(schema): the record as read
fromFirestore(s, doc) ==
  [id |-> doc.docId,
   entityId |-> doc.entityId,
   type |-> doc.type,
   data |-> schemaOutput(s, convertTimestamps(doc.data)),
   clientTimestamp |-> timestampToDate(doc.clientTimestamp),
   serverTimestamp |-> timestampToDate(doc.serverTimestamp)]

\* eventSchema.parse(cleanedData) does not throw
fromFirestoreOk(s, doc) == schemaAccepts(s, convertTimestamps(doc.data))

\* Firestore's orderBy('clientTimestamp'): ascending, ties by document id
DocBefore(x, y) ==
  \/ TsLess(x.clientTimestamp, y.clientTimestamp)
  \/ x.clientTimestamp = y.clientTimestamp /\ x.docId < y.docId

RECURSIVE OrderDocs(_)
OrderDocs(S) ==
  IF S = {} THEN <<>>
  ELSE LET first == CHOOSE x \in S : \A y \in S \ {x} : DocBefore(x, y)
       IN  <<first>> \o OrderDocs(S \ {first})

Range(seq) == {seq[i] : i \in DOMAIN seq}

\* variant: the query without its where clause
queryByEntity_all(docs, entityId) == OrderDocs(Range(docs))

\* query(ref, where('entityId', '==', entityId), orderBy('clientTimestamp'))
queryByEntity(docs, entityId) ==
  OrderDocs({d \in Range(docs) : d.entityId = entityId})

\* getEntityEvents: the query, then doc.data() on every document
getEntityEvents(s, docs, entityId) ==
  LET found == queryByEntity(docs, entityId)
  IN  IF \A i \in DOMAIN found : fromFirestoreOk(s, found[i])
        THEN [ok |-> TRUE,
              events |-> [i \in DOMAIN found |-> fromFirestore(s, found[i])]]
        ELSE [ok |-> FALSE, events |-> <<>>]

\* ------------------------------------------------------- reconstruction
SelectType(events, t) == SelectSeq(events, LAMBDA e : e.type = t)

\* Array.prototype.sort by clientTimestamp (stable insertion)
RECURSIVE InsertByTime(_, _)
InsertByTime(sorted, e) ==
  IF sorted = <<>> THEN <<e>>
  ELSE IF sorted[Len(sorted)].clientTimestamp <= e.clientTimestamp
    THEN Append(sorted, e)
    ELSE Append(InsertByTime(SubSeq(sorted, 1, Len(sorted) - 1), e),
                sorted[Len(sorted)])

RECURSIVE SortByTime(_)
SortByTime(events) ==
  IF events = <<>> THEN <<>>
  ELSE InsertByTime(SortByTime(SubSeq(events, 1, Len(events) - 1)),
                    events[Len(events)])

\* variant: an iteration that merges the changes and keeps the timestamps
applyUpdate_keepStamps(currentState, updateEvent) ==
  Merge(currentState,
        IF "changes" \in DOMAIN updateEvent.data
          THEN updateEvent.data.changes ELSE EmptyObj)

\* one iteration of the loop over the update events
applyUpdate(currentState, updateEvent) ==
  Merge(Merge(currentState,
              IF "changes" \in DOMAIN updateEvent.data
                THEN updateEvent.data.changes ELSE EmptyObj),
        [clientTimestamp |-> updateEvent.clientTimestamp,
         serverTimestamp |-> updateEvent.serverTimestamp])

RECURSIVE applyUpdates(_, _)
applyUpdates(currentState, updateEvents) ==
  IF updateEvents = <<>> THEN currentState
  ELSE applyUpdates(applyUpdate(currentState, Head(updateEvents)),
                    Tail(updateEvents))

\* variant: a seed that leaves out the create event's data
initialState_noData(createEvent, entityId) ==
  [id |-> entityId,
   clientTimestamp |-> createEvent.clientTimestamp,
   serverTimestamp |-> createEvent.serverTimestamp]

\* the seed of the replay: the create event's data, id and timestamps
initialState(createEvent, entityId) ==
  Merge(createEvent.data,
        [id |-> entityId,
         clientTimestamp |-> createEvent.clientTimestamp,
         serverTimestamp |-> createEvent.serverTimestamp])

\* variant: only a delete that is the latest event counts
wasDeleted_lastOnly(events) ==
  events # <<>> /\ events[Len(events)].type = "delete"

wasDeleted(events) == \E i \in DOMAIN events : events[i].type = "delete"

\* variant: a replay that treats a missing create event as a failure
replay_throwsOnMissing(events, entityId) ==
  IF SelectType(events, "create") = <<>> THEN [kind |-> "error"]
  ELSE IF wasDeleted(events) THEN [kind |-> "none"]
  ELSE [kind |-> "some",
        value |-> applyUpdates(
                    initialState(Head(SelectType(events, "create")), entityId),
                    SortByTime(SelectType(events, "update")))]

\* the replay of an event sequence already read
replay(events, entityId) ==
  IF events = <<>> THEN [kind |-> "none"]
  ELSE IF SelectType(events, "create") = <<>> THEN [kind |-> "none"]
  ELSE IF wasDeleted(events) THEN [kind |-> "none"]
  ELSE [kind |-> "some",
        value |-> applyUpdates(
                    initialState(Head(SelectType(events, "create")), entityId),
                    SortByTime(SelectType(events, "update")))]

\* getLatestEntityState: read the events (which may throw), then replay
getLatestEntityState(s, docs, entityId) ==
  LET read == getEntityEvents(s, docs, entityId)
  IN  IF read.ok THEN replay(read.events, entityId) ELSE [kind |-> "error"]

\* ------------------------------------------------------------------ state
VARIABLES
  schema,   \* the entity schema the repository was created with
  log,      \* the documents of the "<name>_events" collection, in commit order
  now,      \* the client clock, in milliseconds
  nextId,   \* the next entity id uuidv4() hands out
  call,     \* per caller: where its facade call in flight stands
  res,      \* what the step just taken returned to its caller, if anything
  items,    \* inMemoryStorage[collection] of the in-memory repository
  dummyId,  \* the next id the in-memory repository hands out
  memRes,   \* what the in-memory repository answered to the call under way
  hookId,   \* the id the component passes to useFirestoreEntity
  hookEntity,  \* the hook's entity state
  hookLoading, \* the hook's loading state
  hookError,   \* the hook's error state: whether an error is set
  delivered,   \* the number of events in the snapshot last delivered to the listener
  running   \* the snapshot callbacks started and not yet finished

\* the state of the package's store and callers, of the web app's in-memory
\* repository and of its hook; no function of the package touches the last two
storeVars == <<schema, log, now, nextId, call, res>>
memVars == <<items, dummyId, memRes>>
hookVars == <<hookId, hookEntity, hookLoading, hookError, delivered, running>>
appVars == <<memVars, hookVars>>

vars == <<storeVars, appVars>>

Idle == [pc |-> "idle"]
NoRes == [op |-> "none"]

\* the hook: no id selected, no entity, no snapshot delivered yet, and the
\* slots of the snapshot callbacks that may be under way at once
NoId == 0
Null == [kind |-> "none"]
NoSnapshot == 0 - 1
Runs == 1 .. MaxRuns
Free == [pc |-> "free"]

\* writes that hold or will hold a slot of the bounded log
Pending == {p \in Procs : call[p].pc \in {"updateEntity", "deleteEntity", "addDoc"}}
HasRoom == Len(log) + Cardinality(Pending) < MaxEvents

Init ==
  /\ schema \in Schemas
  /\ log = <<>>
  /\ now = StartClock
  /\ nextId = 1
  /\ call = [p \in Procs |-> Idle]
  /\ res = NoRes
  /\ items = <<>>
  /\ dummyId = 1
  /\ memRes = NoRes
  /\ hookId = NoId
  /\ hookEntity = Null
  /\ hookLoading = FALSE
  /\ hookError = FALSE
  /\ delivered = NoSnapshot
  /\ running = [r \in Runs |-> Free]

\* createEvent up to the addDoc call: the event document with the client time
createEvent(entityId, type, data) ==
  [entityId |-> entityId, type |-> type, data |-> data, clientTimestamp |-> now]

\* the document the store commits for an event document at its commit time
storedDoc(eventDoc, docId, commitTime) ==
  [docId |-> docId,
   entityId |-> eventDoc.entityId,
   type |-> eventDoc.type,
   data |-> toStoredData(eventDoc.data),
   clientTimestamp |-> dateToTimestamp(eventDoc.clientTimestamp),
   serverTimestamp |-> dateToTimestamp(commitTime)]

\* The ids addDoc may generate.  Generated ids are random; only their order
\* is observable.  A new id sorts after every stored id, or before every
\* stored id when the new document ties on clientTimestamp with a stored
\* document of its entity (the one case where orderBy falls back on the id).
autoIds(eventDoc) ==
  {Len(log) + 1} \cup
  IF \E i \in DOMAIN log :
       /\ log[i].entityId = eventDoc.entityId
       /\ log[i].clientTimestamp = dateToTimestamp(eventDoc.clientTimestamp)
    THEN {0 - (Len(log) + 1)} ELSE {}

\* create(data): validate, draw an id, build the create event, send it
createNewEntity(p, data) ==
  /\ res = NoRes
  /\ call[p] = Idle
  /\ IF schemaAccepts(schema, data)
       THEN /\ HasRoom
            /\ nextId <= MaxEntities
            /\ nextId' = nextId + 1
            /\ call' = [call EXCEPT ![p] =
                 [pc |-> "addDoc", op |-> "create",
                  eventDoc |-> createEvent(nextId, "create", data)]]
            /\ res' = NoRes
       ELSE /\ res' = [op |-> "create", status |-> "validation", data |-> data]
            /\ UNCHANGED <<nextId, call>>
  /\ UNCHANGED <<schema, log, now>>
  /\ UNCHANGED appVars

\* variant: the event is written with setDoc under a document id fixed per
\* entity, so it replaces the entity's stored event
addDoc_setDoc(p) ==
  /\ res = NoRes
  /\ call[p].pc = "addDoc"
  /\ log' = Append(
       SelectSeq(log, LAMBDA d : d.entityId # call[p].eventDoc.entityId),
       storedDoc(call[p].eventDoc, call[p].eventDoc.entityId, now + 1))
  /\ now' = now + 1
  /\ res' = [op |-> call[p].op, status |-> "ok", id |-> call[p].eventDoc.entityId]
  /\ call' = [call EXCEPT ![p] = Idle]
  /\ UNCHANGED <<schema, nextId>>
  /\ UNCHANGED appVars

\* variant: the event is written in two steps, the document first and its
\* data afterwards, and the call returns in between
addDoc_partial(p) ==
  /\ res = NoRes
  /\ call[p].pc = "addDoc"
  /\ log' = Append(log, [storedDoc(call[p].eventDoc, Len(log) + 1, now + 1)
                           EXCEPT !.data = EmptyObj])
  /\ now' = now + 1
  /\ res' = [op |-> call[p].op, status |-> "ok", id |-> call[p].eventDoc.entityId]
  /\ call' = [call EXCEPT ![p] = Idle]
  /\ UNCHANGED <<schema, nextId>>
  /\ UNCHANGED appVars

\* variant: a conditional append, which rejects an update built on a state
\* that a stored update of the entity was built on too
addDoc_ifUnchanged(p) ==
  /\ res = NoRes
  /\ call[p].pc = "addDoc"
  /\ LET e == call[p].eventDoc
         base(data) == [k \in (DOMAIN data) \ {"changes"} |-> data[k]]
         stale == /\ e.type = "update"
                  /\ \E i \in DOMAIN log :
                        /\ log[i].entityId = e.entityId
                        /\ log[i].type = "update"
                        /\ base(log[i].data) = base(toStoredData(e.data))
     IN  IF stale
           THEN /\ res' = [op |-> call[p].op, status |-> "conflict", id |-> e.entityId]
                /\ UNCHANGED <<log, now>>
           ELSE /\ log' = Append(log, storedDoc(e, Len(log) + 1, now + 1))
                /\ now' = now + 1
                /\ res' = [op |-> call[p].op, status |-> "ok", id |-> e.entityId]
  /\ call' = [call EXCEPT ![p] = Idle]
  /\ UNCHANGED <<schema, nextId>>
  /\ UNCHANGED appVars

\* the store commits the pending addDoc of createEvent; the call returns
addDoc(p) ==
  /\ res = NoRes
  /\ call[p].pc = "addDoc"
  /\ \E docId \in autoIds(call[p].eventDoc) :
       log' = Append(log, storedDoc(call[p].eventDoc, docId, now + 1))
  /\ now' = now + 1
  /\ res' = [op |-> call[p].op, status |-> "ok", id |-> call[p].eventDoc.entityId]
  /\ call' = [call EXCEPT ![p] = Idle]
  /\ UNCHANGED <<schema, nextId>>
  /\ UNCHANGED appVars

\* variant: a read that records the access as an event of the entity
findEntityById_touch(p, id) ==
  /\ res = NoRes \/ res.op = "findById"
  /\ call[p] = Idle
  /\ res' = [op |-> "findById", id |-> id,
             result |-> getLatestEntityState(schema, log, id)]
  /\ log' = IF Len(log) < MaxEvents
              THEN Append(log, storedDoc(createEvent(id, "update", [changes |-> EmptyObj]),
                                         Len(log) + 1, now))
              ELSE log
  /\ UNCHANGED <<schema, now, nextId, call>>
  /\ UNCHANGED appVars

\* findById(id); the caller may call it again with the last answer in hand
findEntityById(p, id) ==
  /\ res = NoRes \/ res.op = "findById"
  /\ call[p] = Idle
  /\ res' = [op |-> "findById", id |-> id,
             result |-> getLatestEntityState(schema, log, id)]
  /\ UNCHANGED <<schema, log, now, nextId, call>>
  /\ UNCHANGED appVars

\* getHistory(id)
getEntityHistory(p, id) ==
  /\ res = NoRes
  /\ call[p] = Idle
  /\ res' = [op |-> "getHistory", id |-> id,
             result |-> getEntityEvents(schema, log, id)]
  /\ UNCHANGED <<schema, log, now, nextId, call>>
  /\ UNCHANGED appVars

\* the outcome of a write call that ends at its existence check
failedRead(op, id, currentState) ==
  [op |-> op, id |-> id,
   status |-> IF currentState.kind = "none" THEN "notfound" ELSE "error"]

\* variant: an update that skips the existence check
updateEntityById_noCheck(p, id, changes) ==
  /\ res = NoRes
  /\ call[p] = Idle
  /\ HasRoom
  /\ call' = [call EXCEPT ![p] =
       [pc |-> "updateEntity", id |-> id, changes |-> changes,
        currentState |-> EmptyObj]]
  /\ res' = NoRes
  /\ UNCHANGED <<schema, log, now, nextId>>
  /\ UNCHANGED appVars

\* update(id, changes), up to the answer of findEntityById
updateEntityById(p, id, changes) ==
  /\ res = NoRes
  /\ call[p] = Idle
  /\ LET currentState == getLatestEntityState(schema, log, id)
     IN  IF currentState.kind = "some"
           THEN /\ HasRoom
                /\ call' = [call EXCEPT ![p] =
                     [pc |-> "updateEntity", id |-> id, changes |-> changes,
                      currentState |-> currentState.value]]
                /\ res' = NoRes
           ELSE /\ res' = failedRead("update", id, currentState)
                /\ UNCHANGED call
  /\ UNCHANGED <<schema, log, now, nextId>>
  /\ UNCHANGED appVars

\* variant: the changes are also spread over the state read
updateEntity_applied(p) ==
  /\ res = NoRes
  /\ call[p].pc = "updateEntity"
  /\ call' = [call EXCEPT ![p] =
       [pc |-> "addDoc", op |-> "update",
        eventDoc |-> createEvent(call[p].id, "update",
                       Merge(Merge(call[p].currentState, call[p].changes),
                             [changes |-> call[p].changes]))]]
  /\ res' = NoRes
  /\ UNCHANGED <<schema, log, now, nextId>>
  /\ UNCHANGED appVars

\* updateEntity: the update event carries the state read plus the changes
updateEntity(p) ==
  /\ res = NoRes
  /\ call[p].pc = "updateEntity"
  /\ call' = [call EXCEPT ![p] =
       [pc |-> "addDoc", op |-> "update",
        eventDoc |-> createEvent(call[p].id, "update",
                       Merge(call[p].currentState, [changes |-> call[p].changes]))]]
  /\ res' = NoRes
  /\ UNCHANGED <<schema, log, now, nextId>>
  /\ UNCHANGED appVars

\* variant: a delete that skips the existence check
deleteEntityById_noCheck(p, id) ==
  /\ res = NoRes
  /\ call[p] = Idle
  /\ HasRoom
  /\ call' = [call EXCEPT ![p] = [pc |-> "deleteEntity", id |-> id]]
  /\ res' = NoRes
  /\ UNCHANGED <<schema, log, now, nextId>>
  /\ UNCHANGED appVars

\* delete(id), up to the answer of findEntityById
deleteEntityById(p, id) ==
  /\ res = NoRes
  /\ call[p] = Idle
  /\ LET currentState == getLatestEntityState(schema, log, id)
     IN  IF currentState.kind = "some"
           THEN /\ HasRoom
                /\ call' = [call EXCEPT ![p] = [pc |-> "deleteEntity", id |-> id]]
                /\ res' = NoRes
           ELSE /\ res' = failedRead("delete", id, currentState)
                /\ UNCHANGED call
  /\ UNCHANGED <<schema, log, now, nextId>>
  /\ UNCHANGED appVars

\* deleteEntity: the delete event carries {id}
deleteEntity(p) ==
  /\ res = NoRes
  /\ call[p].pc = "deleteEntity"
  /\ call' = [call EXCEPT ![p] =
       [pc |-> "addDoc", op |-> "delete",
        eventDoc |-> createEvent(call[p].id, "delete", [id |-> call[p].id])]]
  /\ res' = NoRes
  /\ UNCHANGED <<schema, log, now, nextId>>
  /\ UNCHANGED appVars

\* the ids a caller of the event functions can name: those of stored events
\* and ids of its own
KnownIds == {log[i].entityId : i \in DOMAIN log} \cup {ForeignId}

\* a direct call of the exported createEvent (or of updateEntity and
\* deleteEntity, which only call it), up to the addDoc call: no check is made
createEventCall(p, entityId, type) ==
  /\ res = NoRes
  /\ call[p] = Idle
  /\ entityId \in KnownIds
  /\ HasRoom
  /\ call' = [call EXCEPT ![p] =
       [pc |-> "addDoc", op |-> "createEvent",
        eventDoc |-> createEvent(entityId, type, RawData(entityId, type))]]
  /\ res' = NoRes
  /\ UNCHANGED <<schema, log, now, nextId>>
  /\ UNCHANGED appVars

\* Firestore's default order of an unconstrained query: by document id
RECURSIVE OrderByName(_)
OrderByName(S) ==
  IF S = {} THEN <<>>
  ELSE LET first == CHOOSE x \in S : \A y \in S \ {x} : x.docId < y.docId
       IN  <<first>> \o OrderByName(S \ {first})

\* findAll(), up to the answer of getDocs(query(createEventsCollection.ref(db))):
\* the query carries no constraint, every document of the collection is read
\* through the create converter and gives its entityId
findAllEntities(p) ==
  /\ res = NoRes
  /\ call[p] = Idle
  /\ LET createEvents == OrderByName(Range(log))
     IN  IF \A i \in DOMAIN createEvents : fromFirestoreOk(schema, createEvents[i])
           THEN /\ call' = [call EXCEPT ![p] =
                     [pc |-> "findAll",
                      entityIds |-> [i \in DOMAIN createEvents |->
                                       fromFirestore(schema, createEvents[i]).entityId],
                      results |-> <<>>]]
                /\ res' = NoRes
           ELSE /\ res' = [op |-> "findAll", status |-> "error"]
                /\ UNCHANGED call
  /\ UNCHANGED <<schema, log, now, nextId>>
  /\ UNCHANGED appVars

\* findAll(): one iteration of the loop over the entity ids, or the return
findAllNext(p) ==
  /\ res = NoRes
  /\ call[p].pc = "findAll"
  /\ IF call[p].entityIds = <<>>
       THEN /\ res' = [op |-> "findAll", status |-> "ok", result |-> call[p].results]
            /\ call' = [call EXCEPT ![p] = Idle]
       ELSE LET entity == getLatestEntityState(schema, log, Head(call[p].entityIds))
            IN  IF entity.kind = "error"
                  THEN /\ res' = [op |-> "findAll", status |-> "error"]
                       /\ call' = [call EXCEPT ![p] = Idle]
                  ELSE /\ res' = NoRes
                       /\ call' = [call EXCEPT ![p] =
                            [pc |-> "findAll",
                             entityIds |-> Tail(call[p].entityIds),
                             results |-> IF entity.kind = "some"
                                           THEN Append(call[p].results, entity.value)
                                           ELSE call[p].results]]
  /\ UNCHANGED <<schema, log, now, nextId>>
  /\ UNCHANGED appVars

\* the store rejects the pending addDoc of createEvent: nothing is committed
addDocRejected(p) ==
  /\ res = NoRes
  /\ call[p].pc = "addDoc"
  /\ call' = [call EXCEPT ![p] =
       [pc |-> "rejected", op |-> call[p].op, id |-> call[p].eventDoc.entityId,
        request |-> call[p]]]
  /\ res' = NoRes
  /\ UNCHANGED <<schema, log, now, nextId>>
  /\ UNCHANGED appVars

\* the operations that start with a query, and the store rejecting the getDocs
\* of such a call (for findAll also a getDocs of its loop)
QueryOps == {"findById", "getHistory", "update", "delete", "findAll"}
getDocsRejected(p, op, id) ==
  /\ res = NoRes
  /\ \/ call[p] = Idle
     \/ op = "findAll" /\ call[p].pc = "findAll" /\ call[p].entityIds # <<>>
  /\ call' = [call EXCEPT ![p] =
       [pc |-> "rejected", op |-> op, id |-> IF op = "findAll" THEN 0 ELSE id,
        request |-> call[p]]]
  /\ res' = NoRes
  /\ UNCHANGED <<schema, log, now, nextId>>
  /\ UNCHANGED appVars

\* variant: the rejected request is sent again
propagateError_retry(p) ==
  /\ res = NoRes
  /\ call[p].pc = "rejected"
  /\ call' = [call EXCEPT ![p] = call[p].request]
  /\ res' = NoRes
  /\ UNCHANGED <<schema, log, now, nextId>>
  /\ UNCHANGED appVars

\* the rejection of an awaited store call is not caught anywhere: the call
\* fails with the store's error
propagateError(p) ==
  /\ res = NoRes
  /\ call[p].pc = "rejected"
  /\ call' = [call EXCEPT ![p] = Idle]
  /\ res' = [op |-> call[p].op, status |-> "storeError", id |-> call[p].id]
  /\ UNCHANGED <<schema, log, now, nextId>>
  /\ UNCHANGED appVars

\* the caller takes the result of the call that just returned
returnToCaller ==
  /\ res # NoRes
  /\ res' = NoRes
  /\ UNCHANGED <<schema, log, now, nextId, call>>
  /\ UNCHANGED appVars

\* the write steps of caller p, with data and changes drawn from the given sets
WriteStep(p, datas, changeSet) ==
  \/ \E data \in datas : createNewEntity(p, data)
  \/ addDoc(p)
  \/ \E id \in EntityIds, changes \in changeSet : updateEntityById(p, id, changes)
  \/ updateEntity(p)
  \/ \E id \in EntityIds : deleteEntityById(p, id)
  \/ deleteEntity(p)

\* the read calls of caller p
ReadStep(p) ==
  \/ \E id \in EntityIds : findEntityById(p, id)
  \/ \E id \in EntityIds : getEntityHistory(p, id)
  \/ findAllEntities(p)
  \/ findAllNext(p)

\* one caller, each call issued after the previous one completed
SeqNext == WriteStep(1, CreateInputs, ChangeInputs) \/ ReadStep(1) \/ returnToCaller
SeqSpec == Init /\ [][SeqNext]_vars

\* one caller of the facade over a store that may reject any request
FailNext ==
  \/ WriteStep(1, ConcCreateInputs, ConcChangeInputs)
  \/ ReadStep(1)
  \/ addDocRejected(1)
  \/ \E op \in QueryOps, id \in EntityIds : getDocsRejected(1, op, id)
  \/ propagateError(1)
  \/ returnToCaller
FailSpec == Init /\ [][FailNext]_vars

\* one caller that uses the facade and the exported event functions
RawNext ==
  \/ WriteStep(1, ConcCreateInputs, ConcChangeInputs)
  \/ \E entityId \in RawIds, type \in RawTypes :
        createEventCall(1, entityId, type)
  \/ \E id \in RawIds : findEntityById(1, id)
  \/ \E id \in RawIds : getEntityHistory(1, id)
  \/ returnToCaller
RawSpec == Init /\ [][RawNext]_vars

\* two callers whose write calls interleave at every await
Next == (\E p \in Procs : WriteStep(p, ConcCreateInputs, ConcChangeInputs)) \/ returnToCaller
Spec == Init /\ [][Next]_vars

\* ------------------------------------------------ the in-memory repository
\* the caller has no call under way, on either repository
CallerIdle == res = NoRes /\ memRes = NoRes /\ \A p \in Procs : call[p] = Idle

\* items.findIndex((item) => item.id === id): the first such index, or -1
findIndex(id) ==
  IF \E i \in DOMAIN items : items[i].id = id
    THEN CHOOSE i \in DOMAIN items :
           /\ items[i].id = id
           /\ \A j \in DOMAIN items : items[j].id = id => i <= j
    ELSE 0 - 1

\* the sequence without its element at index
splice(seq, index) ==
  [i \in 1 .. Len(seq) - 1 |-> IF i < index THEN seq[i] ELSE seq[i + 1]]

\* create(data): validate, draw an id, push the new item
memCreate(data) ==
  /\ CallerIdle
  /\ HasRoom
  /\ IF schemaAccepts(schema, data)
       THEN /\ dummyId <= MaxEntities
            /\ items' = Append(items,
                 Merge(data, [id |-> dummyId, clientTimestamp |-> now,
                              serverTimestamp |-> Null]))
            /\ dummyId' = dummyId + 1
            /\ memRes' = [op |-> "create", status |-> "ok", id |-> dummyId, data |-> data]
       ELSE /\ memRes' = [op |-> "create", status |-> "validation", data |-> data]
            /\ UNCHANGED <<items, dummyId>>
  /\ UNCHANGED <<storeVars, hookVars>>

\* findById(id): the item with that id, or null
memFindById(id) ==
  /\ CallerIdle
  /\ memRes' = [op |-> "findById", status |-> "ok", id |-> id,
                result |-> IF findIndex(id) = 0 - 1 THEN Null
                           ELSE [kind |-> "some", value |-> items[findIndex(id)]]]
  /\ UNCHANGED <<items, dummyId, storeVars, hookVars>>

\* findAll(): a copy of the items
memFindAll ==
  /\ CallerIdle
  /\ memRes' = [op |-> "findAll", status |-> "ok", result |-> items]
  /\ UNCHANGED <<items, dummyId, storeVars, hookVars>>

\* update(id, changes): merge the changes into the item, or throw not found
memUpdate(id, changes) ==
  /\ CallerIdle
  /\ HasRoom
  /\ IF findIndex(id) # 0 - 1
       THEN /\ items' = [items EXCEPT ![findIndex(id)] = Merge(@, changes)]
            /\ memRes' = [op |-> "update", status |-> "ok", id |-> id, changes |-> changes]
       ELSE /\ memRes' = [op |-> "update", status |-> "notfound", id |-> id,
                          changes |-> changes]
            /\ UNCHANGED items
  /\ UNCHANGED <<dummyId, storeVars, hookVars>>

\* delete(id): remove the item, or throw not found
memDelete(id) ==
  /\ CallerIdle
  /\ HasRoom
  /\ IF findIndex(id) # 0 - 1
       THEN /\ items' = splice(items, findIndex(id))
            /\ memRes' = [op |-> "delete", status |-> "ok", id |-> id]
       ELSE /\ memRes' = [op |-> "delete", status |-> "notfound", id |-> id]
            /\ UNCHANGED items
  /\ UNCHANGED <<dummyId, storeVars, hookVars>>

\* the call the in-memory repository just answered, issued to the
\* event-sourced repository behind the same interface
esCreate(data) ==
  /\ memRes.op = "create" /\ memRes.data = data
  /\ createNewEntity(1, data)

esFindById(id) ==
  /\ memRes.op = "findById" /\ memRes.id = id
  /\ res = NoRes
  /\ findEntityById(1, id)

esFindAll ==
  /\ memRes.op = "findAll"
  /\ findAllEntities(1)

esUpdate(id, changes) ==
  /\ memRes.op = "update" /\ memRes.id = id /\ memRes.changes = changes
  /\ updateEntityById(1, id, changes)

esDelete(id) ==
  /\ memRes.op = "delete" /\ memRes.id = id
  /\ deleteEntityById(1, id)

\* the caller takes the two answers to its call
takeBoth ==
  /\ res # NoRes
  /\ memRes # NoRes
  /\ res' = NoRes
  /\ memRes' = NoRes
  /\ UNCHANGED <<schema, log, now, nextId, call, items, dummyId, hookVars>>

\* one caller that issues each call to both repositories, the next call
\* after both have answered
PairNext ==
  \/ \E data \in CreateInputs : memCreate(data)
  \/ \E id \in EntityIds : memFindById(id)
  \/ memFindAll
  \/ \E id \in EntityIds, changes \in ChangeInputs : memUpdate(id, changes)
  \/ \E id \in EntityIds : memDelete(id)
  \/ \E data \in CreateInputs : esCreate(data)
  \/ \E id \in EntityIds : esFindById(id)
  \/ esFindAll
  \/ \E id \in EntityIds, changes \in ChangeInputs : esUpdate(id, changes)
  \/ \E id \in EntityIds : esDelete(id)
  \/ addDoc(1)
  \/ updateEntity(1)
  \/ deleteEntity(1)
  \/ findAllNext(1)
  \/ takeBoth
PairSpec == Init /\ [][PairNext]_vars

\* ------------------------------------------------------ useFirestoreEntity
\* the number of documents in the result of the hook's query for an entity
querySize(entityId) == Len(queryByEntity(log, entityId))

\* the effect runs because the id changed: the cleanup of the previous run
\* unsubscribes its listener, then there is either no id (no entity, not
\* loading) or a new listener, which has not been delivered a snapshot yet.
\* Callbacks under way are not told.
useEffect(newId) ==
  /\ newId # hookId
  /\ hookId' = newId
  /\ delivered' = NoSnapshot
  /\ IF newId = NoId
       THEN hookEntity' = Null /\ hookLoading' = FALSE
       ELSE hookLoading' = TRUE /\ UNCHANGED hookEntity
  /\ UNCHANGED <<hookError, running, storeVars, memVars>>

\* the listener is handed a snapshot, the first one or one after a change of
\* the query's result: the async callback starts in slot r, the first free
\* one, and awaits getLatestEntityState for the id of its effect run
onSnapshot(r) ==
  /\ hookId # NoId
  /\ delivered # querySize(hookId)
  /\ running[r] = Free
  /\ \A q \in Runs : q < r => running[q] # Free
  /\ delivered' = querySize(hookId)
  /\ running' = [running EXCEPT ![r] = [pc |-> "getDocs", id |-> hookId]]
  /\ UNCHANGED <<hookId, hookEntity, hookLoading, hookError, storeVars, memVars>>

\* the store answers the query of the callback in slot r, and
\* getLatestEntityState replays what it read
reconstruct(r) ==
  /\ running[r].pc = "getDocs"
  /\ running' = [running EXCEPT ![r] =
       [pc |-> "setEntity", id |-> @.id,
        latestState |-> getLatestEntityState(schema, log, @.id)]]
  /\ UNCHANGED <<hookId, hookEntity, hookLoading, hookError, delivered, storeVars, memVars>>

\* the callback in slot r resumes after its await: it stores the state, or
\* the error when getLatestEntityState threw
setEntity(r) ==
  /\ running[r].pc = "setEntity"
  /\ IF running[r].latestState.kind = "error"
       THEN hookError' = TRUE /\ UNCHANGED hookEntity
       ELSE hookEntity' = running[r].latestState /\ hookError' = FALSE
  /\ hookLoading' = FALSE
  /\ running' = [running EXCEPT ![r] = Free]
  /\ UNCHANGED <<hookId, delivered, storeVars, memVars>>

\* a component using the hook while one caller writes through the repository
HookNext ==
  \/ WriteStep(1, ConcCreateInputs, ConcChangeInputs)
  \/ returnToCaller
  \/ \E newId \in EntityIds \cup {NoId} : useEffect(newId)
  \/ \E r \in Runs : onSnapshot(r)
  \/ \E r \in Runs : reconstruct(r)
  \/ \E r \in Runs : setEntity(r)
HookSpec == Init /\ [][HookNext]_vars

\* ============================================================ properties
\* the stored documents of an entity, in commit order
DocsIn(docs, id) == SelectSeq(docs, LAMBDA d : d.entityId = id)
DocsOf(id) == DocsIn(log, id)
TypesOf(id) == [i \in DOMAIN DocsOf(id) |-> DocsOf(id)[i].type]
HasDelete(docs, id) == \E i \in DOMAIN docs : docs[i].entityId = id /\ docs[i].type = "delete"
\* the declared fields of an object
DomainFields(obj) == [k \in (DOMAIN obj) \cap Fields |-> obj[k]]
\* an object conforms to a schema: required fields present, values well-typed
Conforms(s, obj) ==
  /\ s.required \subseteq DOMAIN obj
  /\ \A k \in (DOMAIN obj) \cap Fields : obj[k] \in 1..MaxVal

\* C1 -- Round-trip: when the log of an entity holds only the create event of
\* create(d), findById(id) returns an entity whose declared fields are exactly
\* d, whose id is the id create returned and whose two timestamps are those of
\* the create event.
C1_RoundTrip ==
  (res.op = "findById" /\ TypesOf(res.id) = <<"create">>) =>
     LET stored == DocsOf(res.id)[1]
     IN  /\ res.result.kind = "some"
         /\ DomainFields(res.result.value) = stored.data
         /\ res.result.value.id = res.id
         /\ dateToTimestamp(res.result.value.clientTimestamp) = stored.clientTimestamp
         /\ dateToTimestamp(res.result.value.serverTimestamp) = stored.serverTimestamp

C1_Witness ==
  /\ res.op = "findById"
  /\ TypesOf(res.id) = <<"create">>
  /\ res.result.kind = "some"
  /\ DOMAIN DocsOf(res.id)[1].data = Fields
  /\ res.result.value.clientTimestamp % MsPerSecond # 0

\* C2 -- Tombstone permanence: whenever the log of an entity contains a delete
\* event, findById for that entity returns None (and raises no error),
\* whatever else the log contains.
C2_TombstoneIsNone ==
  (res.op = "findById" /\ HasDelete(log, res.id)) => res.result.kind = "none"

\* the changes of the update documents merged in commit order over the data
\* of the create document
RECURSIVE MergeChanges(_, _)
MergeChanges(state, docs) ==
  IF docs = <<>> THEN state
  ELSE MergeChanges(
         IF Head(docs).type = "update"
           THEN Merge(state, Head(docs).data.changes) ELSE state,
         Tail(docs))

\* C3 -- Update accumulation: after create(d) and a sequence of completed
\* updates, findById returns for every field the value of the last update
\* that sets it, or d's value when no update sets it.
C3_UpdateAccumulation ==
  (/\ res.op = "findById"
   /\ DocsOf(res.id) # <<>>
   /\ \A i \in DOMAIN DocsOf(res.id) :
         DocsOf(res.id)[i].type = (IF i = 1 THEN "create" ELSE "update")
   /\ \A i \in DOMAIN DocsOf(res.id) :
         i > 1 => Conforms([required |-> {}], DocsOf(res.id)[i].data.changes))
  => /\ res.result.kind = "some"
     /\ DomainFields(res.result.value)
          = MergeChanges(DocsOf(res.id)[1].data, Tail(DocsOf(res.id)))

\* an id whose reconstruction should be None: never created, or deleted
Absent(docs, id) ==
  \/ \A i \in DOMAIN docs : docs[i].entityId # id
  \/ HasDelete(docs, id)

\* C4 -- Update precondition: update(id, changes) on an id that was never
\* created or that was deleted fails with a not-found error and leaves the
\* event log as it was.
C4_UpdatePrecondition ==
  [][/\ \A p \in Procs :
          (call[p] = Idle /\ call'[p].pc = "updateEntity")
             => ~Absent(log, call'[p].id)
     /\ (res'.op = "update" /\ res'.status # "ok" /\ Absent(log, res'.id))
          => (res'.status = "notfound" /\ log' = log /\ call' = call)]_vars

\* C5 -- Delete precondition: delete(id) on an id that was never created or
\* that was deleted (a second delete included) fails with a not-found error
\* and leaves the log as it was; on a live entity it appends exactly one
\* delete event whose data is {id}.
C5_DeletePrecondition ==
  [][/\ \A p \in Procs :
          (call[p] = Idle /\ call'[p].pc = "deleteEntity")
             => ~Absent(log, call'[p].id)
     /\ (res'.op = "delete" /\ res'.status # "ok" /\ Absent(log, res'.id))
          => (res'.status = "notfound" /\ log' = log /\ call' = call)
     /\ (res'.op = "delete" /\ res'.status = "ok")
          => /\ Len(log') = Len(log) + 1
             /\ SubSeq(log', 1, Len(log)) = log
             /\ log'[Len(log')].type = "delete"
             /\ log'[Len(log')].entityId = res'.id
             /\ log'[Len(log')].data = [id |-> res'.id]]_vars

C6_Kind(docs, id) == getLatestEntityState(schema, docs, id).kind

\* C6 -- Entity lifecycle: once a delete event of an entity is in the log,
\* findById never returns an entity for it again, whatever is appended later;
\* an entity that findById returned is never reported as None unless it was
\* deleted; and findById starts returning an entity only for an id that had no
\* event (NonExistent -> Live -> Tombstoned, nothing back).
C6_Lifecycle ==
  [][\A id \in EntityIds :
       /\ HasDelete(log', id) => C6_Kind(log', id) # "some"
       /\ (C6_Kind(log, id) = "some" /\ C6_Kind(log', id) = "none")
            => HasDelete(log', id)
       /\ (C6_Kind(log, id) # "some" /\ C6_Kind(log', id) = "some")
            => DocsIn(log, id) = <<>>]_vars

C6_Witness ==
  \E id \in EntityIds : \E i \in DOMAIN DocsOf(id) :
     /\ DocsOf(id)[i].type = "delete"
     /\ i < Len(DocsOf(id))
     /\ DocsOf(id)[Len(DocsOf(id))].type = "update"

\* C7 -- Append-only log: every step of every facade operation leaves the
\* stored events in place and unchanged; the log only grows at its end.
C7_AppendOnly ==
  [][Len(log') >= Len(log) /\ SubSeq(log', 1, Len(log)) = log]_vars

C7_Witness ==
  /\ res.op = "findAll"
  /\ res.status = "ok"
  /\ Len(res.result) >= 1
  /\ \E id \in EntityIds : Len(DocsOf(id)) >= 2

\* C8 -- History completeness: after N successful writes against an id
\* (a create, then updates and at most a delete), getHistory(id) returns
\* exactly N events in ascending clientTimestamp order, the i-th of the type
\* of the i-th operation.
C8_HistoryComplete ==
  res.op = "getHistory" =>
     /\ res.result.ok
     /\ Len(res.result.events) = Len(DocsOf(res.id))
     /\ \A i \in DOMAIN res.result.events :
          /\ res.result.events[i].type = DocsOf(res.id)[i].type
          /\ i > 1 => res.result.events[i - 1].clientTimestamp
                         <= res.result.events[i].clientTimestamp

\* C9 -- Absence before creation: findById(id) for an id without any event
\* returns None, raises no error and appends nothing.
C9_AbsentIsNone ==
  [][(res'.op = "findById" /\ DocsIn(log, res'.id) = <<>>)
        => (res'.result.kind = "none" /\ log' = log /\ call' = call)]_vars

C9_Witness ==
  /\ res.op = "findById"
  /\ DocsOf(res.id) = <<>>
  /\ res.result.kind = "none"
  /\ log # <<>>

\* C10 -- create validation: create(data) with data that does not conform to
\* the schema fails with a validation error, sends nothing to the store and
\* leaves the log unchanged; with conforming data it appends exactly one
\* event, of type create, for an entity id no event carried before.
C10_CreateValidation ==
  [][/\ \A p \in Procs :
          (call[p] = Idle /\ call'[p].pc = "addDoc")
             => /\ call'[p].op = "create"
                /\ Conforms(schema, call'[p].eventDoc.data)
                /\ log' = log
     /\ (res'.op = "create" /\ res'.status = "validation")
          => (~Conforms(schema, res'.data) /\ log' = log /\ call' = call)
     /\ (res'.op = "create" /\ res'.status = "ok")
          => /\ Len(log') = Len(log) + 1
             /\ SubSeq(log', 1, Len(log)) = log
             /\ log'[Len(log')].type = "create"
             /\ log'[Len(log')].entityId = res'.id
             /\ DocsIn(log, res'.id) = <<>>]_vars

C10_Witness ==
  /\ res.op = "create"
  /\ res.status = "validation"
  /\ schema.required \subseteq DOMAIN res.data
  /\ log # <<>>

\* the ids with a create event, and those of them without a delete event
CreatedIds(docs) == {docs[i].entityId : i \in {j \in DOMAIN docs : docs[j].type = "create"}}
LiveIds(docs) == {id \in CreatedIds(docs) : ~HasDelete(docs, id)}

\* C11 -- findAll: the entity ids are enumerated from the create events only
\* (one id per create event), each is reconstructed, and the call returns
\* exactly the entities that were created and not deleted.
C11_FindAll ==
  [][/\ \A p \in Procs :
          (call[p] = Idle /\ call'[p].pc = "findAll")
             => /\ Len(call'[p].entityIds) = Len(SelectType(log, "create"))
                /\ Range(call'[p].entityIds) = CreatedIds(log)
     /\ res'.op = "findAll"
          => /\ res'.status = "ok"
             /\ {res'.result[i].id : i \in DOMAIN res'.result} = LiveIds(log')]_vars

FirstIsCreate(id) ==
  DocsOf(id) # <<>> => queryByEntity(log, id)[1].type = "create"

\* C13 (as stated) -- First-event invariant: in every reachable state, for
\* every entityId that has at least one event, the first event in
\* clientTimestamp order is of type create.
C13_FirstEventAnyId == \A id \in RawIds : FirstIsCreate(id)

\* C13 (amended) -- for every entityId handed out by the facade's create that
\* has at least one event, the first event in clientTimestamp order is of type
\* create, whatever was appended to the entity afterwards.
C13_FirstEventCreated == \A id \in EntityIds : FirstIsCreate(id)

C13_Witness ==
  \E id \in EntityIds :
     /\ Len(DocsOf(id)) = MaxEvents
     /\ \E i \in DOMAIN DocsOf(id) : DocsOf(id)[i].type = "complete"
     /\ \E i \in DOMAIN DocsOf(id) :
          DocsOf(id)[i].type = "update" /\ DOMAIN DocsOf(id)[i].data.changes = {"b"}

\* the entity state embedded in the data of an update event
SnapshotOf(data) == [k \in (DOMAIN data) \ {"changes"} |-> data[k]]
\* stored update events of an entity that embed the given state
SameBase(docs, id, snapshot) ==
  {i \in DOMAIN docs : /\ docs[i].entityId = id
                       /\ docs[i].type = "update"
                       /\ SnapshotOf(docs[i].data) = snapshot}

\* C14 -- Concurrent updates: update is a read followed by an append with no
\* check in between.  The append of an update always succeeds and stores the
\* snapshot the call read together with its own changes, also when an update
\* event built on the same state was stored since the read (the log then
\* holds two update events with the same stale snapshot), and it leaves the
\* other caller's update in flight, with the state that one read, untouched.
C14_ConcurrentUpdates ==
  [][\A p \in Procs :
       (call[p].pc = "addDoc" /\ call[p].op = "update" /\ call'[p] = Idle)
         => LET e == call[p].eventDoc
                snapshot == SnapshotOf(toStoredData(e.data))
            IN  /\ res' = [op |-> "update", status |-> "ok", id |-> e.entityId]
                /\ Len(log') = Len(log) + 1
                /\ SubSeq(log', 1, Len(log)) = log
                /\ log'[Len(log')].type = "update"
                /\ log'[Len(log')].entityId = e.entityId
                /\ log'[Len(log')].data = toStoredData(e.data)
                /\ Cardinality(SameBase(log', e.entityId, snapshot))
                     = Cardinality(SameBase(log, e.entityId, snapshot)) + 1
                /\ \A q \in Procs \ {p} : call'[q] = call[q]]_vars

\* two updates read the same state, both succeeded, and the log ends with
\* their two events: same snapshot, neither holding the other's change
C14_Witness ==
  /\ Len(log) >= 3
  /\ res = [op |-> "update", status |-> "ok", id |-> log[Len(log)].entityId]
  /\ LET d1 == log[Len(log) - 1]
         d2 == log[Len(log)]
     IN  /\ d1.type = "update" /\ d2.type = "update"
         /\ d1.entityId = d2.entityId
         /\ SnapshotOf(d1.data) = SnapshotOf(d2.data)
         /\ \A k \in DOMAIN d1.data.changes : d2.data[k] # d1.data.changes[k]
         /\ \A k \in DOMAIN d2.data.changes : d1.data[k] # d2.data.changes[k]

\* the stored document is the whole event document of a call
CompleteEvent(doc, eventDoc) ==
  /\ doc.entityId = eventDoc.entityId
  /\ doc.type = eventDoc.type
  /\ doc.data = toStoredData(eventDoc.data)
  /\ doc.clientTimestamp = dateToTimestamp(eventDoc.clientTimestamp)
  /\ TsLess(doc.clientTimestamp, doc.serverTimestamp)

\* C15 -- Concurrent appends are safe: with several callers appending, the
\* log changes exactly when an append returns successfully, and then by one
\* new document, under a document id of its own, that is the whole event of
\* that call; the stored events and the other callers' appends in flight stay
\* as they are (nothing lost, merged or partially written).
C15_SafeAppends ==
  [][/\ (log' # log) <=> (res'.op \in {"create", "update", "delete"} /\ res'.status = "ok")
     /\ (log' # log) =>
          \E p \in Procs :
             /\ call[p].pc = "addDoc" /\ call'[p] = Idle
             /\ res'.op = call[p].op /\ res'.id = call[p].eventDoc.entityId
             /\ Len(log') = Len(log) + 1
             /\ SubSeq(log', 1, Len(log)) = log
             /\ CompleteEvent(log'[Len(log')], call[p].eventDoc)
             /\ \A i \in DOMAIN log : log[i].docId # log'[Len(log')].docId
             /\ \A q \in Procs \ {p} : call'[q] = call[q]]_vars

\* an append returned while the other caller's append for the same entity,
\* built at the same instant, is still in flight
C15_Witness ==
  /\ Len(log) >= 2
  /\ res.op \in {"update", "delete"} /\ res.status = "ok"
  /\ \E q \in Procs :
       /\ call[q].pc = "addDoc"
       /\ call[q].eventDoc.entityId = log[Len(log)].entityId
       /\ dateToTimestamp(call[q].eventDoc.clientTimestamp) = log[Len(log)].clientTimestamp

\* C16 -- Read-time validation: every event the facade's create, update or
\* delete stored passes the validation its record undergoes on read, so
\* findById, findAll and getHistory never fail with a validation error.
C16_ReadValidation ==
  /\ \A i \in DOMAIN log : fromFirestoreOk(schema, log[i])
  /\ res.op = "findById" => res.result.kind # "error"
  /\ res.op = "getHistory" => res.result.ok
  /\ res.op = "findAll" => res.status = "ok"

\* the data of a stored event conforms to the payload of its type: an entity
\* for create, an entity snapshot plus partial changes for update, {id} for
\* delete
PayloadConforms(s, doc) ==
  CASE doc.type = "create" -> Conforms(s, doc.data)
    [] doc.type = "update" ->
         /\ "changes" \in DOMAIN doc.data
         /\ Conforms(s, doc.data)
         /\ Conforms([required |-> {}], doc.data.changes)
    [] doc.type = "delete" -> doc.data = [id |-> doc.entityId]
    [] OTHER -> TRUE

\* C17 -- No invalid event is stored: in every reachable state the data of
\* every stored event conforms to the payload of its type, updates whose
\* changes violate the entity schema being rejected before the append.
C17_StoredConform == \A i \in DOMAIN log : PayloadConforms(schema, log[i])

\* C18 -- Update event payload: update(id, changes) keeps the state that
\* findById(id) returns when the call starts, builds its event data as that
\* state, field for field, plus a changes field holding the caller's changes,
\* and the update event it appends stores exactly that data.
C18_UpdatePayload ==
  [][\A p \in Procs :
       /\ (call[p] = Idle /\ call'[p].pc = "updateEntity")
            => LET found == getLatestEntityState(schema, log, call'[p].id)
               IN  found.kind = "some" /\ call'[p].currentState = found.value
       /\ (call[p].pc = "updateEntity" /\ call'[p].pc = "addDoc")
            => LET data == call'[p].eventDoc.data
               IN  /\ call'[p].op = "update"
                   /\ call'[p].eventDoc.type = "update"
                   /\ call'[p].eventDoc.entityId = call[p].id
                   /\ DOMAIN data = (DOMAIN call[p].currentState) \cup {"changes"}
                   /\ \A k \in DOMAIN call[p].currentState :
                         data[k] = call[p].currentState[k]
                   /\ data.changes = call[p].changes
       /\ (call[p].pc = "addDoc" /\ call[p].op = "update" /\ call'[p] = Idle)
            => /\ log'[Len(log')].type = "update"
               /\ convertTimestamps(log'[Len(log')].data) = call[p].eventDoc.data]_vars

\* an update was appended whose changes set a field to a value other than
\* the one its snapshot holds, after the entity had changed since its read
C18_Witness ==
  /\ res.op = "update" /\ res.status = "ok"
  /\ LET d == log[Len(log)]
     IN  /\ d.type = "update"
         /\ \E k \in DOMAIN d.data.changes : k \in DOMAIN d.data /\ d.data[k] # d.data.changes[k]
         /\ \E i \in 1..(Len(log) - 1) :
              /\ log[i].type = "update" /\ log[i].entityId = d.entityId
              /\ TsLess(d.data.serverTimestamp, log[i].serverTimestamp)

\* the two timestamps of an entity, as stored, and those of a stored event
StampsOfEntity(entity) ==
  <<dateToTimestamp(entity.clientTimestamp), dateToTimestamp(entity.serverTimestamp)>>
StampsOfDoc(doc) == <<doc.clientTimestamp, doc.serverTimestamp>>

\* C19 -- Last-modified timestamps: whenever an entity is reconstructed, its
\* clientTimestamp and serverTimestamp are those of an update event of the
\* entity with the greatest clientTimestamp when it has update events, and
\* those of its create event otherwise.
C19_LastModified ==
  \A id \in EntityIds :
     LET found == getLatestEntityState(schema, log, id)
         updates == SelectType(DocsOf(id), "update")
     IN  found.kind = "some" =>
           IF updates # <<>>
             THEN \E i \in DOMAIN updates :
                    /\ \A j \in DOMAIN updates :
                          ~TsLess(updates[i].clientTimestamp, updates[j].clientTimestamp)
                    /\ StampsOfEntity(found.value) = StampsOfDoc(updates[i])
             ELSE StampsOfEntity(found.value)
                    = StampsOfDoc(Head(SelectType(DocsOf(id), "create")))

\* an entity is reconstructed from two update events of the same
\* clientTimestamp, committed at different times
C19_Witness ==
  \E id \in EntityIds :
     LET updates == SelectType(DocsOf(id), "update")
     IN  /\ getLatestEntityState(schema, log, id).kind = "some"
         /\ Len(updates) = 2
         /\ updates[1].clientTimestamp = updates[2].clientTimestamp
         /\ updates[1].serverTimestamp # updates[2].serverTimestamp

\* C20 -- Reconstruction without a create event: findById of an entity whose
\* log is not empty and holds no create event (only update, delete or
\* custom-typed events) returns None and raises no error.
C20_NoCreateIsNone ==
  (/\ res.op = "findById"
   /\ DocsOf(res.id) # <<>>
   /\ SelectType(DocsOf(res.id), "create") = <<>>)
  => res.result.kind = "none"

\* the stored create events of an entity, and its stored update events
\* earlier in clientTimestamp than a given event
CreatesOf(id) == SelectType(DocsOf(id), "create")
EarlierUpdates(id, doc) ==
  {i \in DOMAIN DocsOf(id) :
      /\ DocsOf(id)[i].type = "update"
      /\ TsLess(DocsOf(id)[i].clientTimestamp, doc.clientTimestamp)}

\* C21 -- Updates earlier than the create event: when the log of an entity
\* holds one create event and otherwise only update events, one of them with
\* a clientTimestamp earlier than the create event's, findById returns the
\* create data with the changes of every update event merged over it in
\* clientTimestamp order, the changes of the earlier update included.
C21_EarlyUpdatesApplied ==
  (/\ res.op = "findById"
   /\ Len(CreatesOf(res.id)) = 1
   /\ \A i \in DOMAIN DocsOf(res.id) : DocsOf(res.id)[i].type \in {"create", "update"}
   /\ EarlierUpdates(res.id, CreatesOf(res.id)[1]) # {})
  => /\ res.result.kind = "some"
     /\ DomainFields(res.result.value)
          = MergeChanges(CreatesOf(res.id)[1].data, queryByEntity(log, res.id))

\* C22 -- Persistence failures propagate without retry: a rejection by the
\* store leaves the log as it was, and the call it answers then fails with
\* the store's error, with no request of that call left in flight and the log
\* still unchanged.
C22_FailuresPropagate ==
  [][\A p \in Procs :
       /\ (call[p].pc # "rejected" /\ call'[p].pc = "rejected") => log' = log
       /\ (call[p].pc = "rejected" /\ call'[p] # call[p])
            => /\ call'[p] = Idle
               /\ res' = [op |-> call[p].op, status |-> "storeError", id |-> call[p].id]
               /\ log' = log]_vars

\* an update failed at its append, after its read had succeeded
C22_Witness ==
  /\ res.op = "update" /\ res.status = "storeError"
  /\ TypesOf(res.id) = <<"create">>
  /\ getLatestEntityState(schema, log, res.id).kind = "some"

\* C23 -- findAll returns each live entity exactly once: whenever findAll
\* returns, its result has as many entries as there are entity ids that are
\* created and not deleted, also when entities have update events.
C23_FindAllOnce ==
  (res.op = "findAll" /\ res.status = "ok")
     => Len(res.result) = Cardinality(LiveIds(log))

\* C24 -- Schema conformance of reads: whenever findById returns an entity,
\* its domain fields conform to the schema of the repository, whatever create
\* and update calls came before.
C24_ReadsConform ==
  (res.op = "findById" /\ res.result.kind = "some")
     => Conforms(schema, DomainFields(res.result.value))

\* C25 -- No change is lost at reconstruction: when the only two update
\* events of a live entity come from interleaved calls (both embed the same
\* state read) and set different fields, the reconstruction of the entity
\* holds the value of both changes.
C25_NoLostChange ==
  \A i, j \in DOMAIN log :
     (/\ i < j
      /\ log[i].type = "update" /\ log[j].type = "update"
      /\ log[i].entityId = log[j].entityId
      /\ Len(SelectType(DocsOf(log[i].entityId), "update")) = 2
      /\ ~HasDelete(log, log[i].entityId)
      /\ SnapshotOf(log[i].data) = SnapshotOf(log[j].data)
      /\ (DOMAIN log[i].data.changes) \cap (DOMAIN log[j].data.changes) = {})
     => LET found == getLatestEntityState(schema, log, log[i].entityId)
        IN  /\ found.kind = "some"
            /\ \A k \in DOMAIN log[i].data.changes :
                  k \in DOMAIN found.value /\ found.value[k] = log[i].data.changes[k]
            /\ \A k \in DOMAIN log[j].data.changes :
                  k \in DOMAIN found.value /\ found.value[k] = log[j].data.changes[k]

\* the events of an entity committed after its first delete event, and the
\* update and delete calls on the entity that have read it and not yet returned
AfterDelete(id) ==
  {i \in DOMAIN DocsOf(id) :
      \E d \in DOMAIN DocsOf(id) : DocsOf(id)[d].type = "delete" /\ d < i}
InFlightOn(id) ==
  {p \in Procs :
      \/ call[p].pc \in {"updateEntity", "deleteEntity"} /\ call[p].id = id
      \/ /\ call[p].pc = "addDoc" /\ call[p].op \in {"update", "delete"}
         /\ call[p].eventDoc.entityId = id}

C27_EntityIsolation ==
  [][/\ log' # log =>
          /\ Len(log') = Len(log) + 1
          /\ res'.op \in {"create", "update", "delete"}
          /\ log'[Len(log')].entityId = res'.id
          /\ \A B \in EntityIds \ {res'.id} :
                /\ getLatestEntityState(schema, log', B)
                     = getLatestEntityState(schema, log, B)
                /\ getEntityEvents(schema, log', B) = getEntityEvents(schema, log, B)
     /\ res'.op = "getHistory" =>
          \A i \in DOMAIN res'.result.events :
             res'.result.events[i].entityId = res'.id]_vars

\* an update of one entity returned while another entity is live
C27_Witness ==
  /\ res.op = "update" /\ res.status = "ok"
  /\ \E B \in EntityIds \ {res.id} :
        getLatestEntityState(schema, log, B).kind = "some"

\* C28 -- Custom event types are inert for reconstruction: when an event of
\* an application-defined type is appended to an entity's log with
\* createEvent, findById of the entity gives what it gave before, and
\* getHistory returns the entity's events in clientTimestamp order with the
\* new event among them.
C28_CustomInert ==
  [][\A p \in Procs :
       (/\ call[p].pc = "addDoc" /\ call[p].op = "createEvent"
        /\ call[p].eventDoc.type \notin {"create", "update", "delete"}
        /\ log' # log)
       => LET id == call[p].eventDoc.entityId
              history == getEntityEvents(schema, log', id)
          IN  /\ getLatestEntityState(schema, log', id)
                   = getLatestEntityState(schema, log, id)
              /\ history.ok
              /\ \E i \in DOMAIN history.events :
                    /\ history.events[i].id = log'[Len(log')].docId
                    /\ history.events[i].type = call[p].eventDoc.type
              /\ \A i \in DOMAIN history.events :
                    i > 1 => history.events[i - 1].clientTimestamp
                                <= history.events[i].clientTimestamp]_vars

\* how a call ended: its status, a read that threw being an error
StatusOf(r) ==
  IF r.op = "findById"
    THEN IF r.result.kind = "error" THEN "error" ELSE "ok"
    ELSE r.status
\* the number of entries of a result list with the given domain fields
CountOf(list, fields) ==
  Cardinality({i \in DOMAIN list : DomainFields(list[i]) = fields})
\* two result lists hold the same domain field values, order aside
SameEntities(l1, l2) ==
  /\ Len(l1) = Len(l2)
  /\ \A i \in DOMAIN l1 :
       CountOf(l1, DomainFields(l1[i])) = CountOf(l2, DomainFields(l1[i]))

\* C29 -- In-memory equivalence: when a sequential caller issues the same
\* create, update, delete, findById or findAll call to the in-memory and to
\* the event-sourced repository, both end the call the same way (success,
\* validation failure or not found), findById returns null on both or
\* entities with the same domain fields, and findAll returns lists holding
\* the same domain field values.
C29_SameAnswers ==
  (res # NoRes /\ memRes # NoRes) =>
    /\ StatusOf(res) = StatusOf(memRes)
    /\ res.op = "findById" =>
         /\ res.result.kind = memRes.result.kind
         /\ res.result.kind = "some" =>
              DomainFields(res.result.value) = DomainFields(memRes.result.value)
    /\ (res.op = "findAll" /\ res.status = "ok") =>
         SameEntities(res.result, memRes.result)

\* the hook has been delivered the current result of its query and no
\* callback is under way
Settled ==
  /\ \A r \in Runs : running[r] = Free
  /\ hookId # NoId => delivered = querySize(hookId)

\* C30 -- Subscription convergence: whenever the hook has seen the latest
\* events of the selected id and every snapshot callback it started has
\* finished, the exposed entity is the reconstruction of the current log for
\* the selected id (null when no id is selected), whatever the order in which
\* the callbacks finished and whether or not the id changed meanwhile.
C30_Converges ==
  Settled =>
    IF hookId = NoId
      THEN hookEntity = Null
      ELSE LET latestState == getLatestEntityState(schema, log, hookId)
           IN  latestState.kind # "error" => hookEntity = latestState
====
